---- MODULE Spec2Model ----
(***************************************************************************)
(* A model of pcangsd's estimation engine: the chunked worker sections of  *)
(* helpFunctions.py, the PCAngsd refinement loop of covariance.py, the     *)
(* accelerated NMF of admixture.py and the entry of callGeno.py.           *)
(*                                                                         *)
(* The source is Python 2 (range(pF) takes the result of an integer "/"),  *)
(* so "/" between integers is floor division.                              *)
(*                                                                         *)
(* Real numbers are carried on integer grids.  In admixNMF one unit is     *)
(* 1e-4 (SCALE units make 1.0), so the clipping bounds 1e-4 and 1-1e-4 are *)
(* 1 and 9999; a product of two values is brought back to the grid by      *)
(* Grid, which rounds away from zero (a nonzero float product is not zero).*)
(* In PCAngsd one unit is 1e-6 (PSCALE units make 1.0), so the tolerances  *)
(* 5e-5 and 5e-6 are 50 and 5.  Library routines (numpy's inverse, scipy's *)
(* svds and eigsh) are not code of the repository: their results are drawn *)
(* from small families, and their own preconditions are not modelled.      *)
(***************************************************************************)
EXTENDS Integers, Sequences, FiniteSets, TLC

VARIABLES
    prog,        \* the entry point that was called
    pc,          \* the place in its code
    err,         \* the exception that ended it, "" when none
    arg,         \* the call's arguments (never assigned by the code)
    m, n,        \* the shape read from the first matrix argument
    chunk_N, chunks,
    \* ---- rmse2d_multi
    sumA,        \* the shared accumulator
    wpos,        \* each worker's loop variable i
    writers,     \* for each row of sumA, the workers that wrote it
    result,      \* the returned value
    \* ---- admixNMF
    rng,         \* the state of numpy's global generator: the draws made since np.random.seed
    shuffleX, X, Qn, Qd, prevQ, F, bIndex, perm, bpos,
    iteration, inner, F_prev, F_init, Q_prev, Q_init, diff, full_iter,
    siteOf,      \* for each row of F, the caller's site it was fitted to
    logLike_inds,
    \* ---- PCAngsd and callGeno
    e, expG, diagC, C, loadings, mapTest, predF, prevF, oldDiff, G

vars == << prog, pc, err, arg, m, n, chunk_N, chunks, sumA, wpos, writers,
           result, rng, shuffleX, X, Qn, Qd, prevQ, F, bIndex, perm, bpos,
           iteration, inner, F_prev, F_init, Q_prev, Q_init, diff, full_iter,
           siteOf, logLike_inds, e, expG, diagC, C, loadings, mapTest, predF,
           prevF, oldDiff, G >>

parVars == << sumA, wpos, writers >>
nmfVars == << rng, shuffleX, X, Qn, Qd, prevQ, F, bIndex, perm, bpos, inner,
              F_prev, F_init, Q_prev, Q_init, full_iter, siteOf,
              logLike_inds >>
pcaVars == << e, expG, diagC, C, loadings, mapTest, predF, prevF, oldDiff,
             G >>

\* A name that is not bound (yet) or holds None: for a matrix, a vector or a
\* tuple the empty one, for a number -1 (no number of the program is negative
\* where it is tested for being bound).
None == << >>
Unbound == 0 - 1

----------------------------------------------------------------------------
\* Bounds of the model.
MaxThreads == 3
MaxRows == 5
\* admixNMF: individuals, sites, ranks, batches, the cap iter
NumInd == 2
MaxN == 3
MaxK == 2
MaxBatch == 3
MaxIter == 2
MaxSeed == 5
\* PCAngsd: sites, the fixed component counts, the cap M
NumSites == 2
MaxEV == 1
MaxM == 3
\* the MAP test: the greatest loading scale of an eigenpair
MaxLoad == 3

\* Program constants.
SCALE == 10000
ClipLo == 1
ClipHi == 9999
NumFull == 10
PSCALE == 1000000
PClipLo == 100
PClipHi == 999900
PlateauTol == 5
EigK == 20

----------------------------------------------------------------------------
\* Arithmetic.

Min(a, b) == IF a <= b THEN a ELSE b
Max(a, b) == IF a >= b THEN a ELSE b
Abs(a) == IF a >= 0 THEN a ELSE -a

RECURSIVE SumTo(_, _)
\* f[0] + ... + f[k-1]
SumTo(f, k) == IF k = 0 THEN 0 ELSE f[k - 1] + SumTo(f, k - 1)

\* int(np.ceil(float(a)/b))
CeilDiv(a, b) == (a + b - 1) \div b

RECURSIVE SqrtBetween(_, _, _)
SqrtBetween(x, lo, hi) ==
    IF lo >= hi THEN lo
    ELSE LET mid == (lo + hi + 1) \div 2
         IN  IF mid * mid <= x THEN SqrtBetween(x, mid, hi)
             ELSE SqrtBetween(x, lo, mid - 1)

\* sqrt, rounded down to the grid
ISqrt(x) == SqrtBetween(x, 0, 46340)

RECURSIVE Fact(_)
Fact(k) == IF k <= 1 THEN 1 ELSE k * Fact(k - 1)

RECURSIVE Lehmer(_, _)
\* The idx-th arrangement, in lexicographic order, of the increasing sequence avail.
Lehmer(avail, idx) ==
    IF Len(avail) = 0 THEN << >>
    ELSE LET f == Fact(Len(avail) - 1)
             d == (idx \div f) % Len(avail)
             others == [j \in 1 .. Len(avail) - 1 |->
                          IF j <= d THEN avail[j] ELSE avail[j + 1]]
         IN  << avail[d + 1] >> \o Lehmer(others, idx % f)

\* np.random.permutation(k) with the seeded generator in state g: the generator
\* is deterministic, and every permutation is the draw of some state.
RandPerm(g, k) ==
    LET seq == Lehmer([j \in 1 .. k |-> j - 1], g)
    IN  [i \in 0 .. k - 1 |-> seq[i + 1]]

----------------------------------------------------------------------------
\* The chunked worker sections.

\* chunk_N = int(np.ceil(float(m)/threads))
ChunkSizeFloor(rows, threads) == rows \div threads
ChunkSize(rows, threads) == CeilDiv(rows, threads)

\* chunks = [i * chunk_N for i in range(threads)]
ChunkStarts(N, threads) == [i \in 0 .. threads - 1 |-> i * N]

\* range(S, min(S+N, m)): the rows one worker loops over
WorkerRows(S, N, rows) == { i \in 0 .. rows - 1 : S <= i /\ i < Min(S + N, rows) }

\* The rows some worker writes, given the chunks the caller computed.
Covered(ch, N, rows) == UNION { WorkerRows(ch[w], N, rows) : w \in DOMAIN ch }

----------------------------------------------------------------------------
\* helpFunctions.rmse2d_multi, called with the chunks its caller computed.

\* The two matrices of a call, on the 1e-4 grid.
ParA(sel, rows) == [i \in 0 .. rows - 1 |->
                      [j \in 0 .. 1 |-> 1000 * ((3 * i + 2 * j + sel) % 7)]]
ParB(rows) == [i \in 0 .. rows - 1 |-> [j \in 0 .. 1 |-> 1000 * ((i + j) % 3)]]

\* One pass of the loop over j in rmse2d_inner: the sum of squared differences of row i.
RowSq(A, B, i, cols) ==
    SumTo([j \in 0 .. cols - 1 |-> (A[i][j] - B[i][j]) * (A[i][j] - B[i][j])], cols)

\* sqrt(np.sum(sumA)/(m*n)), in units of 1e-5 for matrices on the 1e-4 grid.
RmseOf(s, cells) ==
    IF s <= 20000000 THEN ISqrt((100 * s) \div cells)
    ELSE 10 * ISqrt(s \div cells)

IdlePar == sumA = None /\ wpos = None /\ writers = None
IdleNMF ==
    /\ rng = 0 /\ shuffleX = None /\ X = None /\ Qn = None /\ Qd = None /\ prevQ = None
    /\ F = None /\ bIndex = None /\ perm = None /\ bpos = 0 /\ inner = 0
    /\ F_prev = None /\ F_init = Unbound /\ Q_prev = None /\ Q_init = Unbound
    /\ full_iter = 0 /\ siteOf = None /\ logLike_inds = None
IdlePCA ==
    /\ e = Unbound /\ expG = None /\ diagC = None /\ C = None /\ mapTest = None
    /\ loadings = None
    /\ predF = None /\ prevF = None /\ oldDiff = Unbound /\ G = None

InitPar ==
    /\ prog = "rmse2d_multi"
    /\ pc = "call"
    /\ err = ""
    /\ \E rows \in 1 .. MaxRows, th \in 1 .. MaxThreads, sel \in 0 .. 1 :
          arg = [A |-> ParA(sel, rows), B |-> ParB(rows), threads |-> th]
    /\ m = 0 /\ n = 0 /\ chunk_N = 0 /\ chunks = << >>
    /\ result = Unbound /\ iteration = Unbound /\ diff = Unbound
    /\ IdlePar /\ IdleNMF /\ IdlePCA

\* The caller's chunk_N and chunks, then rmse2d_multi up to the start of its threads.
ParFork ==
    /\ prog = "rmse2d_multi" /\ pc = "call"
    /\ LET rows == Cardinality(DOMAIN arg.A)
           N == ChunkSize(rows, arg.threads)
       IN  /\ m' = rows
           /\ n' = Cardinality(DOMAIN arg.A[0])
           /\ chunk_N' = N
           /\ chunks' = ChunkStarts(N, arg.threads)
           /\ sumA' = [i \in 0 .. rows - 1 |-> 0]
           /\ wpos' = ChunkStarts(N, arg.threads)
           /\ writers' = [i \in 0 .. rows - 1 |-> {}]
    /\ pc' = "run"
    /\ UNCHANGED << prog, err, arg, result, iteration, diff, nmfVars, pcaVars >>

\* One pass of a worker's loop over i in rmse2d_inner; the workers interleave.
ParWorker(w) ==
    /\ prog = "rmse2d_multi" /\ pc = "run"
    /\ w \in DOMAIN wpos
    /\ wpos[w] < Min(chunks[w] + chunk_N, m)
    /\ LET i == wpos[w]
       IN  /\ sumA' = [sumA EXCEPT ![i] = @ + RowSq(arg.A, arg.B, i, n)]
           /\ writers' = [writers EXCEPT ![i] = @ \cup {w}]
    /\ wpos' = [wpos EXCEPT ![w] = @ + 1]
    /\ UNCHANGED << prog, pc, err, arg, m, n, chunk_N, chunks, result,
                    iteration, diff, nmfVars, pcaVars >>

\* thread.join() of every worker, then the reduction.
ParJoin ==
    /\ prog = "rmse2d_multi" /\ pc = "run"
    /\ \A w \in DOMAIN wpos : wpos[w] >= Min(chunks[w] + chunk_N, m)
    /\ result' = RmseOf(SumTo(sumA, m), m * n)
    /\ pc' = "done"
    /\ UNCHANGED << prog, err, arg, m, n, chunk_N, chunks, iteration, diff,
                    parVars, nmfVars, pcaVars >>

NextPar ==
    \/ ParFork
    \/ \E w \in 0 .. MaxThreads - 1 : ParWorker(w)
    \/ ParJoin

SpecPar == InitPar /\ [][NextPar]_vars

----------------------------------------------------------------------------
\* admixture.py on the 1e-4 grid.

\* A sum of products of two grid values, brought back to the grid.
Grid(x) == IF x >= 0 THEN (x + SCALE - 1) \div SCALE
           ELSE -((SCALE - 1 - x) \div SCALE)

\* Q[i, k] as a grid value; Q is kept exactly, as Qn[i][k]/Qd[i].
QEntry(qn, qd) == (qn * SCALE + qd - 1) \div qd
QVal(qn, qd) == [i \in DOMAIN qn |-> [k \in DOMAIN qn[i] |-> QEntry(qn[i][k], qd[i])]]

\* np.sum(Q, axis=1, keepdims=True)
TotalSum(q, K) ==
    [i \in DOMAIN q |->
        SumTo([r \in 0 .. Cardinality(DOMAIN q) - 1 |-> SumTo(q[r], K)],
              Cardinality(DOMAIN q))]
RowSums(q, K) == [i \in DOMAIN q |-> SumTo(q[i], K)]

\* frobenius(A, B) over the rows rs
Frobenius(A, B, rs, cols) ==
    LET sq == [i \in rs |-> RowSq(A, B, i, cols)]
        lo == CHOOSE i \in rs : \A j \in rs : i <= j
    IN  ISqrt(SumTo([i \in 0 .. Cardinality(rs) - 1 |-> sq[lo + i]], Cardinality(rs)))

\* rmse2d_multi(A, B, chunks, chunk_N): every worker section joined
Rmse2dMulti(A, B, rows, cols, ch, N) ==
    LET cov == Covered(ch, N, rows)
        sums == [i \in 0 .. rows - 1 |-> IF i \in cov THEN RowSq(A, B, i, cols) ELSE 0]
    IN  RmseOf(SumTo(sums, rows), rows * cols)

\* np.argsort(a)
ArgsortSame(a) == a
Argsort(a) ==
    [j \in DOMAIN a |->
        CHOOSE i \in DOMAIN a :
            Cardinality({k \in DOMAIN a : a[k] < a[i] \/ (a[k] = a[i] /\ k < i)}) = j]

\* batch_N and bIndex = np.arange(0, n, batch_N)
BatchN(sites, batch) == CeilDiv(sites, batch)
BIndex(sites, batch) ==
    [j \in 0 .. CeilDiv(sites, BatchN(sites, batch)) - 1 |-> j * BatchN(sites, batch)]

\* The rows of F (columns of X) of the block that starts at b: b .. bEnd-1
Block(b, sites, batch) == b .. (Min(b + BatchN(sites, batch), sites) - 1)

\* pF and pQ for nInner columns
PFOf(rows, nInner, K) == 2 * (1 + (rows * nInner + rows * K) \div (nInner * K + nInner))
PQOf(rows, nInner, K) == 2 * (1 + (rows * nInner + nInner * K) \div (rows * K + rows))

\* One entry of updateF: F[s,k] *= A[s,k]/FB[s,k], then the two clips.
UpdateFEntry(f, a, fb) == Min(Max((f * a) \div fb, ClipLo), ClipHi)

\* One entry of updateQ: Q[i,k] *= A[i,k]/(QB[i,k] + alpha), then the two clips.
UpdateQEntry(q, a, qb, alpha) == Min(Max((q * a) \div (qb + alpha), ClipLo), ClipHi)

\* A = np.dot(Xbatch.T, Q), B = np.dot(Q.T, Q), np.dot(F[b:bEnd], B)
FNumer(x, q, rows, s, k) == Grid(SumTo([i \in 0 .. rows - 1 |-> x[i][s] * q[i][k]], rows))
QtQ(q, rows, j, k) == Grid(SumTo([i \in 0 .. rows - 1 |-> q[i][j] * q[i][k]], rows))
FDenom(f, q, rows, K, s, k) ==
    Grid(SumTo([j \in 0 .. K - 1 |-> f[s][j] * QtQ(q, rows, j, k)], K))

\* updateF(F[b:bEnd], A, np.dot(F[b:bEnd], B)) for the rows blk of F
FZeroDiv(f, x, q, rows, K, blk) ==
    \E s \in blk, k \in 0 .. K - 1 : FDenom(f, q, rows, K, s, k) = 0
UpdateF(f, x, q, rows, K, blk) ==
    [s \in DOMAIN f |->
        IF s \in blk
        THEN [k \in 0 .. K - 1 |->
                UpdateFEntry(f[s][k], FNumer(x, q, rows, s, k),
                             FDenom(f, q, rows, K, s, k))]
        ELSE f[s]]

\* A = np.dot(Xbatch, F[b:bEnd]), B = np.dot(F[b:bEnd].T, F[b:bEnd]), np.dot(Q, B)
BlockSum(g, blk) ==
    LET lo == CHOOSE s \in blk : \A t \in blk : s <= t
    IN  SumTo([j \in 0 .. Cardinality(blk) - 1 |-> g[lo + j]], Cardinality(blk))
QNumer(x, f, blk, i, k) == Grid(BlockSum([s \in blk |-> x[i][s] * f[s][k]], blk))
FtF(f, blk, j, k) == Grid(BlockSum([s \in blk |-> f[s][j] * f[s][k]], blk))
QDenom(q, f, blk, K, i, k) ==
    Grid(SumTo([j \in 0 .. K - 1 |-> q[i][j] * FtF(f, blk, j, k)], K))

\* updateQ(Q, A, np.dot(Q, B), alpha): the clipped, not yet normalised Q
QZeroDiv(q, f, K, blk, alpha) ==
    \E i \in DOMAIN q, k \in 0 .. K - 1 : QDenom(q, f, blk, K, i, k) + alpha = 0
UpdateQ(q, x, f, K, blk, alpha) ==
    [i \in DOMAIN q |->
        [k \in 0 .. K - 1 |->
            UpdateQEntry(q[i][k], QNumer(x, f, blk, i, k),
                         QDenom(q, f, blk, K, i, k), alpha)]]

\* The caller's X (individual allele frequencies), np.random.rand(m, K) and
\* the least-squares F that numpy's inverse gives, which is not clipped.
XLevels == << 1200, 8000, 4500, 9999, 300, 6100, 2500 >>
QLevels == << 3000, 7000, 1, 9000, 5000 >>
F0Levels == << -1500, 2500, 12000, 6000, 1 >>
CallerX(rows, sites) ==
    [i \in 0 .. rows - 1 |-> [s \in 0 .. sites - 1 |-> XLevels[((2 * i + 3 * s) % 7) + 1]]]
RandQ(g, rows, K) ==
    [i \in 0 .. rows - 1 |-> [k \in 0 .. K - 1 |-> QLevels[((i + 2 * k + g) % 5) + 1]]]
LstSqF(g, sites, K) ==
    [s \in 0 .. sites - 1 |-> [k \in 0 .. K - 1 |-> F0Levels[((s + 2 * k + g) % 5) + 1]]]

\* Genotype likelihoods in tenths, three rows per individual.
LikeMat(rows, sites) ==
    [r \in 0 .. rows - 1 |-> [s \in 0 .. sites - 1 |-> 1 + ((r * r + 2 * s + r \div 3) % 9)]]

\* alpha, tole (units of 1e-5), threads and the rows of likeMatrix beyond 3m:
\* the defaults for the even seeds, a second setting for the odd ones.
ConfigOf(seed) ==
    IF seed % 2 = 0
    THEN [alpha |-> 0, tole |-> 5, threads |-> 1, extra |-> 0]
    ELSE [alpha |-> 5000, tole |-> 3000, threads |-> MaxThreads, extra |-> 1]

InitNMF ==
    /\ prog = "admixNMF"
    /\ pc = "call"
    /\ err = ""
    /\ \E sites \in 1 .. MaxN, K \in 1 .. MaxK, batch \in 1 .. MaxBatch,
          iter \in 0 .. MaxIter, seed \in 0 .. MaxSeed :
          LET c == ConfigOf(seed)
          IN  arg = [X |-> CallerX(NumInd, sites), K |-> K,
                     likeMatrix |-> LikeMat(3 * NumInd + c.extra, sites),
                     alpha |-> c.alpha, iter |-> iter, tole |-> c.tole,
                     seed |-> seed, batch |-> batch, threads |-> c.threads]
    /\ m = 0 /\ n = 0 /\ chunk_N = 0 /\ chunks = << >>
    /\ result = None /\ iteration = Unbound /\ diff = Unbound
    /\ IdlePar /\ IdleNMF /\ IdlePCA

\* Everything but pc and err.
rest == << prog, arg, m, n, chunk_N, chunks, result, iteration, diff,
           parVars, nmfVars, pcaVars >>
Raise(x) == pc' = "error" /\ err' = x /\ UNCHANGED rest

\* admixNMF, lines 65-84: the shuffle, the first Q and F, chunks and batches.
NMFSetup ==
    /\ prog = "admixNMF" /\ pc = "call"
    /\ LET rows == Cardinality(DOMAIN arg.X)
           sites == Cardinality(DOMAIN arg.X[0])
       IN  /\ m' = rows
           /\ n' = sites
           /\ LET sh == RandPerm(arg.seed, sites)
                  r == RandQ(arg.seed + 1, rows, arg.K)
              IN  /\ shuffleX' = sh
                  /\ X' = [i \in 0 .. rows - 1 |->
                             [s \in 0 .. sites - 1 |-> arg.X[i][sh[s]]]]
                  /\ siteOf' = sh
                  /\ Qn' = r
                  /\ Qd' = RowSums(r, arg.K)
                  /\ prevQ' = QVal(r, RowSums(r, arg.K))
                  /\ F' = LstSqF(arg.seed, sites, arg.K)
           /\ rng' = arg.seed + 2
           /\ chunk_N' = ChunkSize(rows, arg.threads)
           /\ chunks' = ChunkStarts(ChunkSize(rows, arg.threads), arg.threads)
           /\ bIndex' = BIndex(sites, arg.batch)
    /\ pc' = IF arg.iter >= 1 THEN "iter" ELSE "delperm"
    /\ UNCHANGED << prog, err, arg, result, iteration, diff, parVars, pcaVars,
                    perm, bpos, inner, F_prev, F_init, Q_prev, Q_init,
                    full_iter, logLike_inds >>

\* Lines 87-90: the next outer iteration draws perm and indexes bIndex with it.
NMFBeginIter ==
    /\ prog = "admixNMF" /\ pc = "iter"
    /\ iteration' = IF iteration = Unbound THEN 1 ELSE iteration + 1
    /\ LET p == RandPerm(rng, arg.batch)
       IN  /\ perm' = p
           /\ IF \E j \in DOMAIN p : p[j] \notin DOMAIN bIndex
              THEN pc' = "error" /\ err' = "IndexError"
              ELSE pc' = "mbF" /\ err' = err
    /\ rng' = rng + 1
    /\ bpos' = 0 /\ inner' = 0
    /\ UNCHANGED << prog, arg, m, n, chunk_N, chunks, result, diff, parVars,
                    pcaVars, shuffleX, X, Qn, Qd, prevQ, F, bIndex, F_prev,
                    F_init, Q_prev, Q_init, full_iter, siteOf, logLike_inds >>

\* The test after a pass: none after the first one, then the change against
\* a tenth of the first change.
StopTestAlways(pass, change, init) == 10 * change <= init
StopTest(pass, change, init) == pass > 0 /\ 10 * change <= init

\* One pass of an acceleration loop for F over the rows blk, of at most P passes.
FPass(blk, P, exitPc) ==
    LET q == QVal(Qn, Qd)
        newF == UpdateF(F, X, q, m, arg.K, blk)
        change == Frobenius(newF, F, blk, arg.K)
        stop == StopTest(inner, change, F_init)
    IN  IF FZeroDiv(F, X, q, m, arg.K, blk)
        THEN Raise("ZeroDivisionError")
        ELSE /\ F_prev' = [s \in blk |-> F[s]]
             /\ F' = newF
             /\ F_init' = IF inner = 0 THEN change ELSE F_init
             /\ IF stop \/ inner + 1 >= P
                THEN pc' = exitPc /\ inner' = 0
                ELSE pc' = pc /\ inner' = inner + 1
             /\ UNCHANGED << prog, err, arg, m, n, chunk_N, chunks, result,
                             iteration, diff, parVars, pcaVars, rng, shuffleX, X,
                             Qn, Qd, prevQ, bIndex, perm, bpos, Q_prev,
                             Q_init, full_iter, siteOf, logLike_inds >>

\* One pass of an acceleration loop for Q with the columns blk of X.
QPass(blk, P, alpha, exitPc, exitBpos) ==
    LET q == QVal(Qn, Qd)
        u == UpdateQ(q, X, F, arg.K, blk, alpha)
        sums == RowSums(u, arg.K)
        change == Frobenius(QVal(u, sums), q, 0 .. m - 1, arg.K)
        stop == StopTest(inner, change, Q_init)
    IN  IF QZeroDiv(q, F, arg.K, blk, alpha)
        THEN Raise("ZeroDivisionError")
        ELSE /\ Q_prev' = q
             /\ Qn' = u
             /\ Qd' = sums
             /\ Q_init' = IF inner = 0 THEN change ELSE Q_init
             /\ IF stop \/ inner + 1 >= P
                THEN pc' = exitPc /\ inner' = 0 /\ bpos' = exitBpos
                ELSE pc' = pc /\ inner' = inner + 1 /\ bpos' = bpos
             /\ UNCHANGED << prog, err, arg, m, n, chunk_N, chunks, result,
                             iteration, diff, parVars, pcaVars, rng, shuffleX, X,
                             prevQ, F, bIndex, perm, F_prev, F_init,
                             full_iter, siteOf, logLike_inds >>

CurBlock == Block(bIndex[perm[bpos]], n, arg.batch)

\* Lines 91-108: the F loop of the current block.
NMFBatchF ==
    /\ prog = "admixNMF" /\ pc = "mbF"
    /\ FPass(CurBlock, PFOf(m, Cardinality(CurBlock), arg.K), "mbQ")

\* Lines 110-122: the Q loop of the current block, then the next block.
NMFBatchQ ==
    /\ prog = "admixNMF" /\ pc = "mbQ"
    /\ IF bpos + 1 < arg.batch
       THEN QPass(CurBlock, PQOf(m, Cardinality(CurBlock), arg.K), arg.alpha,
                  "mbF", bpos + 1)
       ELSE QPass(CurBlock, PQOf(m, Cardinality(CurBlock), arg.K), arg.alpha,
                  "measure", bpos)

\* Lines 124-131: the difference to prevQ, the break, the copy.
NMFMeasure ==
    /\ prog = "admixNMF" /\ pc = "measure"
    /\ LET q == QVal(Qn, Qd)
           d == Rmse2dMulti(q, prevQ, m, arg.K, chunks, chunk_N)
       IN  /\ diff' = d
           /\ IF d < arg.tole
              THEN pc' = "delperm" /\ prevQ' = prevQ
              ELSE /\ prevQ' = q
                   /\ pc' = IF iteration < arg.iter THEN "iter" ELSE "delperm"
    /\ UNCHANGED << prog, err, arg, m, n, chunk_N, chunks, result, iteration,
                    parVars, pcaVars, rng, shuffleX, X, Qn, Qd, F, bIndex, perm,
                    bpos, inner, F_prev, F_init, Q_prev, Q_init, full_iter,
                    siteOf, logLike_inds >>

\* Line 133, del perm, and the head of the full iterations.
NMFDelPerm ==
    /\ prog = "admixNMF" /\ pc = "delperm"
    /\ IF perm = None
       THEN Raise("UnboundLocalError")
       ELSE /\ perm' = None
            /\ full_iter' = 1 /\ inner' = 0
            /\ pc' = "fullF"
            /\ UNCHANGED << prog, err, arg, m, n, chunk_N, chunks, result,
                            iteration, diff, parVars, pcaVars, rng, shuffleX, X, Qn,
                            Qd, prevQ, F, bIndex, bpos, F_prev, F_init, Q_prev,
                            Q_init, siteOf, logLike_inds >>

\* Lines 139-150: the F loop over all of X.
NMFFullF ==
    /\ prog = "admixNMF" /\ pc = "fullF"
    /\ FPass(0 .. n - 1, PFOf(m, n, arg.K), "fullQ")

\* Lines 152-164: the Q loop over all of X, with alpha*batch.
NMFFullQ ==
    /\ prog = "admixNMF" /\ pc = "fullQ"
    /\ QPass(0 .. n - 1, PQOf(m, n, arg.K), arg.alpha * arg.batch,
             "fullMeasure", bpos)

\* Lines 166-173.
NMFFullMeasure ==
    /\ prog = "admixNMF" /\ pc = "fullMeasure"
    /\ LET q == QVal(Qn, Qd)
           d == Rmse2dMulti(q, prevQ, m, arg.K, chunks, chunk_N)
       IN  /\ diff' = d
           /\ IF d < 1
              THEN pc' = "finish" /\ prevQ' = prevQ /\ full_iter' = full_iter
              ELSE /\ prevQ' = q
                   /\ IF full_iter < NumFull
                      THEN pc' = "fullF" /\ full_iter' = full_iter + 1
                      ELSE pc' = "finish" /\ full_iter' = full_iter
    /\ UNCHANGED << prog, err, arg, m, n, chunk_N, chunks, result, iteration,
                    parVars, pcaVars, rng, shuffleX, X, Qn, Qd, F, bIndex, perm,
                    bpos, inner, F_prev, F_init, Q_prev, Q_init, siteOf,
                    logLike_inds >>

\* Lines 175-188: the dels, the reshuffle, logLike_admix's container, the return.
NMFFinish ==
    /\ prog = "admixNMF" /\ pc = "finish"
    /\ LET back == Argsort(shuffleX)
           newF == [j \in 0 .. n - 1 |-> F[back[j]]]
       IN  /\ F' = newF
           /\ siteOf' = [j \in 0 .. n - 1 |-> siteOf[back[j]]]
           /\ X' = [i \in 0 .. m - 1 |-> [j \in 0 .. n - 1 |-> X[i][back[j]]]]
           /\ result' = [Q |-> QVal(Qn, Qd), F |-> newF]
    /\ logLike_inds' = [i \in 0 .. (Cardinality(DOMAIN arg.likeMatrix) \div 3) - 1 |-> 0]
    /\ F_prev' = None /\ Q_prev' = None /\ prevQ' = None
    /\ pc' = "done"
    /\ UNCHANGED << prog, err, arg, m, n, chunk_N, chunks, iteration, diff,
                    parVars, pcaVars, rng, shuffleX, Qn, Qd, bIndex, perm, bpos,
                    inner, F_init, Q_init, full_iter >>

NextNMF ==
    \/ NMFSetup
    \/ NMFBeginIter
    \/ NMFBatchF
    \/ NMFBatchQ
    \/ NMFMeasure
    \/ NMFDelPerm
    \/ NMFFullF
    \/ NMFFullQ
    \/ NMFFullMeasure
    \/ NMFFinish

SpecNMF == InitNMF /\ [][NextNMF]_vars

----------------------------------------------------------------------------
\* covariance.py and callGeno.py on the 1e-6 grid.

\* The three Hardy-Weinberg proportions for the frequency p, in units of 1e-8.
HardyWeinberg(p) ==
    LET a == (PSCALE - p) \div 100
        b == p \div 100
    IN  [g \in 0 .. 2 |-> IF g = 0 THEN a * a ELSE IF g = 1 THEN 2 * b * a ELSE b * b]

\* probMatrix[:, s] before it is normalised, for individual ind and prior p
ProbCol(like, ind, s, p) ==
    [g \in 0 .. 2 |-> like[3 * ind + g][s] * HardyWeinberg(p)[g]]
ProbTotal(w) == w[0] + w[1] + w[2]

\* expG[ind, s]: the sum of probMatrix[g, s]*g after the normalisation
DosageOf(w) == (w[1] + 2 * w[2]) \div (ProbTotal(w) \div PSCALE)

\* 2*f*(1-f) in units of 1e-4
Var2(f) == (2 * (f \div 1000) * ((PSCALE - f) \div 1000)) \div 100

\* temp/(2*f[s]*(1 - f[s])) of one site, in units of 1e-4
DiagTerm(w, f) ==
    LET pct == [g \in 0 .. 2 |-> w[g] \div (ProbTotal(w) \div 100)]
        dev == [g \in 0 .. 2 |-> (g * PSCALE - 2 * f) \div 1000]
    IN  (dev[0] * dev[0] * pct[0] + dev[1] * dev[1] * pct[1]
            + dev[2] * dev[2] * pct[2]) \div Var2(f)

\* The prior of individual ind at site s: f[s], or indF[ind, s] when indF is given.
Prior(indF, f, ind, s) == IF indF = None THEN f[s] ELSE indF[ind][s]

\* The dosage and the diagonal a worker computes for row ind.
DosageRow(like, indF, f, ind, sites) ==
    [s \in 0 .. sites - 1 |-> DosageOf(ProbCol(like, ind, s, Prior(indF, f, ind, s)))]
DiagOfRow(like, indF, f, ind, sites) ==
    SumTo([s \in 0 .. sites - 1 |->
             DiagTerm(ProbCol(like, ind, s, Prior(indF, f, ind, s)), f[s])], sites)
        \div sites

\* updateFumagalli / updatePCAngsd (and the expG of covFumagalli / covPCAngsd)
\* run by the workers: the rows they cover are written, the others are left.
UpdateDosage(like, indF, f, old, rows, sites, ch, N) ==
    [ind \in 0 .. rows - 1 |->
        IF ind \in Covered(ch, N, rows) THEN DosageRow(like, indF, f, ind, sites)
        ELSE old[ind]]
UpdateDiag(like, indF, f, old, rows, sites, ch, N) ==
    [ind \in 0 .. rows - 1 |->
        IF ind \in Covered(ch, N, rows) THEN DiagOfRow(like, indF, f, ind, sites)
        ELSE old[ind]]

\* estimateCov: normalizeGeno by the workers into X = zeros (units of 1e-3),
\* then C in units of 1e-4, as diagC.
NormalizeGeno(g, f) == ((g - 2 * f) * 10) \div ISqrt(Var2(f) * 10000)
EstimateCov(xg, dC, f, rows, sites, ch, N) ==
    LET Xn == [i \in 0 .. rows - 1 |->
                 [s \in 0 .. sites - 1 |->
                    IF i \in Covered(ch, N, rows) THEN NormalizeGeno(xg[i][s], f[s])
                    ELSE 0]]
    IN  [i \in 0 .. rows - 1 |->
           [j \in 0 .. rows - 1 |->
              IF i = j THEN dC[i]
              ELSE SumTo([s \in 0 .. sites - 1 |-> Xn[i][s] * Xn[j][s]], sites)
                      \div (sites * 100)]]

\* expGcenter by the workers, in place
ExpGCenter(xg, f, rows, sites, ch, N) ==
    [i \in 0 .. rows - 1 |->
        IF i \in Covered(ch, N, rows)
        THEN [s \in 0 .. sites - 1 |-> xg[i][s] - 2 * f[s]]
        ELSE xg[i]]

\* np.dot(V*s, U) of scipy's svds: some low-rank matrix near the centred
\* dosages.  Here it is the matrix that addIntercept turns into PBase + shift.
PLevels == << 60, 400000, 250000, 999950 >>
PBase(i, s) == PLevels[((i + 2 * s) % 4) + 1]
Shifts == { 0, 100, 200, 306 }
SvdsOut(shift, f, rows, sites) ==
    [i \in 0 .. rows - 1 |->
        [s \in 0 .. sites - 1 |-> 2 * (PBase(i, s) + shift) - 2 * f[s]]]

\* One entry of addIntercept
AddInterceptNoClip(x, f) == (x + 2 * f) \div 2
AddInterceptEntry(x, f) == Min(Max((x + 2 * f) \div 2, PClipLo), PClipHi)
AddIntercept(raw, f, rows, sites, ch, N) ==
    [i \in 0 .. rows - 1 |->
        IF i \in Covered(ch, N, rows)
        THEN [s \in 0 .. sites - 1 |-> AddInterceptEntry(raw[i][s], f[s])]
        ELSE raw[i]]

\* rmse2d_multi_float32(A, B, chunks, chunk_N) in units of 1e-6
Rmse2dMultiFloat32(A, B, rows, sites, ch, N) ==
    LET cov == Covered(ch, N, rows)
        sums == [i \in 0 .. rows - 1 |-> IF i \in cov THEN RowSq(A, B, i, sites) ELSE 0]
    IN  ISqrt(SumTo(sums, rows) \div (rows * sites))

\* The two tests of lines 266-277.
Converged(d, tol) == d < tol
PlateauStrict(it, d, old) == it # 2 /\ Abs(d - old) < PlateauTol
Plateau(it, d, old) == it # 2 /\ Abs(d - old) <= PlateauTol

ArgMinLast(t) ==
    CHOOSE i \in DOMAIN t : /\ \A j \in DOMAIN t : t[i] <= t[j]
                            /\ \A j \in DOMAIN t : j > i => t[j] > t[i]
\* np.argmin(t): the first index of the least entry
ArgMin(t) ==
    CHOOSE i \in DOMAIN t : /\ \A j \in DOMAIN t : t[i] <= t[j]
                            /\ \A j \in DOMAIN t : j < i => t[j] > t[i]

\* The MAP test of lines 209-231.  Its scores are in units of 1e-4; it works
\* on C in units of 1e-2 and on loadings in units of 1e-1, whose products are
\* in units of 1e-2 too.
MapGrid(cov) == [i \in DOMAIN cov |-> [j \in DOMAIN cov[i] |-> cov[i][j] \div 100]]

\* scipy's eigsh(C, k=20).  An eigenpair is held as its eigenvalue val and the
\* index dir of its eigenvector's direction in an orthogonal basis of integer
\* vectors: (1, .., 1) and, for 0 < j < rows, (1, .., 1, -j, 0, .., 0) with j
\* ones.  val is sc*sc times the squared length of the direction, sc the scale
\* of the loading.  A pair beyond the rank has the eigenvalue 0, or a rounding
\* error below 0.
EigDir(j, rows) ==
    [i \in 0 .. rows - 1 |-> IF j = 0 \/ i < j THEN 1 ELSE IF i = j THEN 0 - j ELSE 0]
EigNormSq(j, rows) == IF j = 0 THEN rows ELSE j * (j + 1)
EigshOut(sc, rows, noise) ==
    [c \in 0 .. EigK - 1 |->
        IF c < rows /\ sc[c] > 0
        THEN [val |-> sc[c] * sc[c] * EigNormSq(c, rows), dir |-> c]
        ELSE [val |-> IF noise THEN 0 - 1 ELSE 0, dir |-> IF c < rows THEN c ELSE 0]]

\* The symmetric matrix that has these eigenpairs, in units of 1e-4.
CovOf(sc, rows) ==
    [i \in 0 .. rows - 1 |->
        [j \in 0 .. rows - 1 |->
            100 * SumTo([c \in 0 .. rows - 1 |->
                           sc[c] * sc[c] * EigDir(c, rows)[i] * EigDir(c, rows)[j]],
                        rows)]]

\* Lines 211-215: the eigenvalues in falling order, those below 0 set to 0,
\* and loadings = eigVecs . diagflat(sqrt(eigVals)).
RECURSIVE SortedFrom(_, _, _)
SortedFrom(eig, order, k) ==
    IF k = 0 THEN << >>
    ELSE LET pair == eig[order[k - 1]]
         IN  Append(SortedFrom(eig, order, k - 1),
                    [val |-> Max(pair.val, 0), dir |-> pair.dir])
SortDesc(vals) ==
    LET asc == Argsort(vals)
        K == Cardinality(DOMAIN vals)
    IN  [c \in 0 .. K - 1 |-> asc[K - 1 - c]]
LoadingsOf(eig, rows) ==
    LET K == Cardinality(DOMAIN eig)
        sort == SortDesc([c \in DOMAIN eig |-> eig[c].val])
        pairs == SortedFrom(eig, sort, K)
    IN  [i \in 0 .. rows - 1 |->
           [c \in DOMAIN eig |->
              EigDir(pairs[c + 1].dir, rows)[i]
                 * ISqrt(pairs[c + 1].val \div EigNormSq(pairs[c + 1].dir, rows))]]

\* Line 220: partcov = C - loadings[:, 0:eig+1] . loadings[:, 0:eig+1].T
PartCov(cov, L, eig, i, j) ==
    cov[i][j] - SumTo([c \in 0 .. eig |-> L[i][c] * L[j][c]], eig + 1)

\* Line 223: a zero or negative entry on the diagonal of partcov
DegenerateNever(cov, L, eig, rows) == FALSE
Degenerate(cov, L, eig, rows) == \E i \in 0 .. rows - 1 : PartCov(cov, L, eig, i, i) <= 0

\* Lines 224-228: mapTest[eig]
MapScore(cov, L, eig, rows) ==
    IF Degenerate(cov, L, eig, rows) THEN SCALE
    ELSE LET d == [i \in 0 .. rows - 1 |-> PartCov(cov, L, eig, i, i)]
             prSq == [i \in 0 .. rows - 1 |->
                        SumTo([j \in 0 .. rows - 1 |->
                                 LET p == PartCov(cov, L, eig, i, j)
                                 IN  (p * p * SCALE) \div (d[i] * d[j])], rows)]
         IN  (SumTo(prSq, rows) - rows * SCALE) \div (rows * (rows - 1))

\* The eigenpairs eigsh gives inside PCAngsd: three of the family.
EigshOf(sel, rows) ==
    EigshOut([c \in 0 .. rows - 1 |-> (c + sel) % (MaxLoad + 1)], rows, sel = 1)

PopFreq(sites) == [s \in 0 .. sites - 1 |-> IF s % 2 = 0 THEN 250000 ELSE 500000]

InitPCA ==
    /\ prog = "PCAngsd"
    /\ pc = "call"
    /\ err = ""
    /\ \E extra \in 0 .. 1, EVs \in 0 .. MaxEV, M \in 0 .. MaxM,
          th \in {1, MaxThreads} :
          arg = [likeMatrix |-> LikeMat(3 * NumInd + extra, NumSites),
                 EVs |-> EVs, M |-> M, f |-> PopFreq(NumSites),
                 M_tole |-> 50, threads |-> th]
    /\ m = 0 /\ n = 0 /\ chunk_N = 0 /\ chunks = << >>
    /\ result = None /\ iteration = Unbound /\ diff = Unbound
    /\ IdlePar /\ IdleNMF /\ IdlePCA

\* Lines 184-192.
PCAStart ==
    /\ prog = "PCAngsd" /\ pc = "call"
    /\ LET rows == Cardinality(DOMAIN arg.likeMatrix) \div 3
           sites == Cardinality(DOMAIN arg.likeMatrix[0])
       IN  /\ m' = rows
           /\ n' = sites
           /\ chunk_N' = ChunkSize(rows, arg.threads)
           /\ chunks' = ChunkStarts(ChunkSize(rows, arg.threads), arg.threads)
           /\ expG' = [i \in 0 .. rows - 1 |-> [s \in 0 .. sites - 1 |-> 0]]
           /\ diagC' = [i \in 0 .. rows - 1 |-> 0]
    /\ e' = arg.EVs
    /\ pc' = IF arg.EVs = 0 THEN "fumagalli" ELSE "manual"
    /\ UNCHANGED << prog, err, arg, result, iteration, diff, parVars, nmfVars,
                    C, loadings, mapTest, predF, prevF, oldDiff, G >>

\* Lines 195-207: covFumagalli, estimateCov, and the return when M == 0.
PCACovFumagalli ==
    /\ prog = "PCAngsd" /\ pc = "fumagalli"
    /\ LET xg == UpdateDosage(arg.likeMatrix, None, arg.f, expG, m, n, chunks, chunk_N)
           dC == UpdateDiag(arg.likeMatrix, None, arg.f, diagC, m, n, chunks, chunk_N)
           cov == EstimateCov(xg, dC, arg.f, m, n, chunks, chunk_N)
       IN  /\ expG' = xg
           /\ diagC' = dC
           /\ C' = cov
           /\ IF arg.M = 0
              THEN /\ result' = [C |-> cov, indF |-> None, e |-> e, expG |-> xg]
                   /\ pc' = "done"
              ELSE /\ result' = result
                   /\ pc' = "map"
    /\ UNCHANGED << prog, err, arg, m, n, chunk_N, chunks, iteration, diff,
                    parVars, nmfVars, e, loadings, mapTest, predF, prevF, oldDiff, G >>

\* Lines 210-216: eigsh, the sorting, the loadings, mapTest = zeros.
EigshStep(eig, nextPc) ==
    /\ loadings' = LoadingsOf(eig, m)
    /\ mapTest' = [c \in DOMAIN eig |-> 0]
    /\ pc' = nextPc
    /\ UNCHANGED << prog, err, arg, m, n, chunk_N, chunks, result, iteration,
                    diff, parVars, nmfVars, e, expG, diagC, C, predF, prevF,
                    oldDiff, G >>

\* Lines 218-231: the loop over the candidates, then the choice of e.
MapLoopStep(nextPc) ==
    /\ LET scores == [eig \in DOMAIN mapTest |->
                        MapScore(MapGrid(C), loadings, eig, m)]
       IN  /\ mapTest' = scores
           /\ e' = Max(1, ArgMin(scores) + 1)
    /\ pc' = nextPc
    /\ UNCHANGED << prog, err, arg, m, n, chunk_N, chunks, result, iteration,
                    diff, parVars, nmfVars, expG, diagC, C, loadings, predF,
                    prevF, oldDiff, G >>

PCAEigsh ==
    /\ prog = "PCAngsd" /\ pc = "map"
    /\ \E sel \in 0 .. 2 : EigshStep(EigshOf(sel, m), "mapLoop")

PCAMapTest ==
    /\ prog = "PCAngsd" /\ pc = "mapLoop"
    /\ MapLoopStep("estimate")

\* Lines 236-244: updateFumagalli.
PCAUpdateFumagalli ==
    /\ prog = "PCAngsd" /\ pc = "manual"
    /\ expG' = UpdateDosage(arg.likeMatrix, None, arg.f, expG, m, n, chunks, chunk_N)
    /\ pc' = "estimate"
    /\ UNCHANGED << prog, err, arg, m, n, chunk_N, chunks, result, iteration,
                    diff, parVars, nmfVars, e, diagC, C, loadings, mapTest, predF, prevF,
                    oldDiff, G >>

\* Lines 234 and 246-249: the first estimateF, and the head of the loop.
PCAEstimate ==
    /\ prog = "PCAngsd" /\ pc = "estimate"
    /\ mapTest' = None /\ loadings' = None
    /\ expG' = ExpGCenter(expG, arg.f, m, n, chunks, chunk_N)
    /\ \E shift \in Shifts :
         LET est == AddIntercept(SvdsOut(shift, arg.f, m, n), arg.f, m, n,
                                 chunks, chunk_N)
         IN  predF' = est /\ prevF' = est
    /\ IF arg.M >= 1
       THEN pc' = "iter" /\ iteration' = 2
       ELSE pc' = "final" /\ iteration' = iteration
    /\ UNCHANGED << prog, err, arg, m, n, chunk_N, chunks, result, diff,
                    parVars, nmfVars, e, diagC, C, oldDiff, G >>

\* Lines 252-279: one iteration of the refinement loop.
PCARefine ==
    /\ prog = "PCAngsd" /\ pc = "iter"
    /\ \E shift \in Shifts :
         LET xg == UpdateDosage(arg.likeMatrix, predF, arg.f, expG, m, n,
                                chunks, chunk_N)
             est == AddIntercept(SvdsOut(shift, arg.f, m, n), arg.f, m, n,
                                 chunks, chunk_N)
             d == Rmse2dMultiFloat32(est, prevF, m, n, chunks, chunk_N)
             stop == Converged(d, arg.M_tole) \/ Plateau(iteration, d, oldDiff)
         IN  /\ expG' = ExpGCenter(xg, arg.f, m, n, chunks, chunk_N)
             /\ predF' = est
             /\ diff' = d
             /\ oldDiff' = IF stop THEN oldDiff ELSE d
             /\ prevF' = IF stop THEN prevF ELSE est
             /\ IF stop \/ iteration = arg.M + 1
                THEN pc' = "final" /\ iteration' = iteration
                ELSE pc' = "iter" /\ iteration' = iteration + 1
    /\ UNCHANGED << prog, err, arg, m, n, chunk_N, chunks, result, parVars,
                    nmfVars, e, diagC, C, loadings, mapTest, G >>

\* The same return without lines 281-286.
PCAFinalStale ==
    /\ prog = "PCAngsd" /\ pc = "final"
    /\ LET cov == EstimateCov(expG, diagC, arg.f, m, n, chunks, chunk_N)
       IN  /\ C' = cov
           /\ result' = [C |-> cov, indF |-> predF, e |-> e, expG |-> expG]
    /\ pc' = "done"
    /\ UNCHANGED << prog, err, arg, m, n, chunk_N, chunks, iteration, diff,
                    parVars, nmfVars, e, expG, diagC, loadings, mapTest, predF, prevF,
                    oldDiff, G >>

\* Lines 281-290: covPCAngsd, estimateCov, the return.
PCAFinal ==
    /\ prog = "PCAngsd" /\ pc = "final"
    /\ LET xg == UpdateDosage(arg.likeMatrix, predF, arg.f, expG, m, n,
                              chunks, chunk_N)
           dC == UpdateDiag(arg.likeMatrix, predF, arg.f, diagC, m, n,
                            chunks, chunk_N)
           cov == EstimateCov(xg, dC, arg.f, m, n, chunks, chunk_N)
       IN  /\ expG' = xg
           /\ diagC' = dC
           /\ C' = cov
           /\ result' = [C |-> cov, indF |-> predF, e |-> e, expG |-> xg]
    /\ pc' = "done"
    /\ UNCHANGED << prog, err, arg, m, n, chunk_N, chunks, iteration, diff,
                    parVars, nmfVars, e, loadings, mapTest, predF, prevF, oldDiff, G >>

NextPCA ==
    \/ PCAStart
    \/ PCACovFumagalli
    \/ PCAEigsh
    \/ PCAMapTest
    \/ PCAUpdateFumagalli
    \/ PCAEstimate
    \/ PCARefine
    \/ PCAFinal

SpecPCA == InitPCA /\ [][NextPCA]_vars

----------------------------------------------------------------------------
\* The MAP test of PCAngsd on its own, from line 209 on: C is a matrix with
\* known eigenpairs and eigsh gives exactly these.

InitMAP ==
    /\ prog = "mapTest"
    /\ pc = "map"
    /\ err = ""
    /\ \E rows \in 2 .. NumInd + 2 :
         \E sc \in [0 .. rows - 1 -> 0 .. MaxLoad], noise \in BOOLEAN :
            /\ arg = [eigsh |-> EigshOut(sc, rows, noise)]
            /\ m = rows
            /\ C = CovOf(sc, rows)
    /\ n = 0 /\ chunk_N = 0 /\ chunks = << >>
    /\ result = None /\ iteration = Unbound /\ diff = Unbound
    /\ IdlePar /\ IdleNMF
    /\ e = 0 /\ expG = None /\ diagC = None /\ mapTest = None /\ loadings = None
    /\ predF = None /\ prevF = None /\ oldDiff = Unbound /\ G = None

MAPEigsh ==
    /\ prog = "mapTest" /\ pc = "map"
    /\ EigshStep(arg.eigsh, "mapLoop")

MAPTest ==
    /\ prog = "mapTest" /\ pc = "mapLoop"
    /\ MapLoopStep("done")

NextMAP == MAPEigsh \/ MAPTest

SpecMAP == InitMAP /\ [][NextMAP]_vars

----------------------------------------------------------------------------
\* callGeno.py, without inbreeding coefficients (F = None).

\* np.argmax(probMatrix[:, s]): the first index of the greatest entry
ArgMax(w) ==
    CHOOSE g \in DOMAIN w : /\ \A h \in DOMAIN w : w[h] <= w[g]
                            /\ \A h \in DOMAIN w : h < g => w[h] < w[g]

\* The call of gProbGeno for one entry; delta is in percent.
GenoCall(like, indF, ind, s, delta) ==
    LET w == ProbCol(like, ind, s, indF[ind][s])
        geno == ArgMax(w)
    IN  IF w[geno] \div (ProbTotal(w) \div 100) < delta THEN 9 ELSE geno

Deltas == { 0, 60 }

InitCall ==
    /\ prog = "callGeno"
    /\ pc = "call"
    /\ err = ""
    /\ \E extra \in 0 .. 1, delta \in Deltas, th \in {1, MaxThreads} :
          arg = [likeMatrix |-> LikeMat(3 * NumInd + extra, NumSites),
                 indF |-> [i \in 0 .. NumInd - 1 |->
                             [s \in 0 .. NumSites - 1 |->
                                Min(Max(PBase(i, s), PClipLo), PClipHi)]],
                 delta |-> delta, threads |-> th]
    /\ m = 0 /\ n = 0 /\ chunk_N = 0 /\ chunks = << >>
    /\ result = None /\ iteration = Unbound /\ diff = Unbound
    /\ IdlePar /\ IdleNMF /\ IdlePCA

\* Lines 63-69: the dimensions, the chunks, G = np.empty((m, n)).
CallGenoStart ==
    /\ prog = "callGeno" /\ pc = "call"
    /\ LET rows == Cardinality(DOMAIN arg.likeMatrix) \div 3
           sites == Cardinality(DOMAIN arg.likeMatrix[0])
       IN  /\ m' = rows
           /\ n' = sites
           /\ chunk_N' = ChunkSize(rows, arg.threads)
           /\ chunks' = ChunkStarts(ChunkSize(rows, arg.threads), arg.threads)
           /\ \E junk \in {0, 9} :
                G' = [i \in 0 .. rows - 1 |-> [s \in 0 .. sites - 1 |-> junk]]
    /\ pc' = "threads"
    /\ UNCHANGED << prog, err, arg, result, iteration, diff, parVars, nmfVars,
                    e, expG, diagC, C, loadings, mapTest, predF, prevF, oldDiff >>

\* Lines 79-87: the gProbGeno workers, the join, the return.
CallGenoThreads ==
    /\ prog = "callGeno" /\ pc = "threads"
    /\ LET called == [i \in 0 .. m - 1 |->
                        IF i \in Covered(chunks, chunk_N, m)
                        THEN [s \in 0 .. n - 1 |->
                                GenoCall(arg.likeMatrix, arg.indF, i, s, arg.delta)]
                        ELSE G[i]]
       IN  G' = called /\ result' = called
    /\ pc' = "done"
    /\ UNCHANGED << prog, err, arg, m, n, chunk_N, chunks, iteration, diff,
                    parVars, nmfVars, e, expG, diagC, C, loadings, mapTest, predF, prevF,
                    oldDiff >>

NextCall == CallGenoStart \/ CallGenoThreads

----------------------------------------------------------------------------
\* Every entry point of the package.

Init == InitPar \/ InitNMF \/ InitPCA \/ InitCall

Next == NextPar \/ NextNMF \/ NextPCA \/ NextCall

Spec == Init /\ [][Next]_vars

----------------------------------------------------------------------------
\* The properties.

\* C8: for every m >= 1 and every thread count >= 1 the worker ranges
\* [S, min(S+N, m)) are pairwise disjoint and cover [0, m); under every
\* interleaving no row of sumA has two writers, and at the join every row has
\* been written once and holds its own sum.
C8_WorkerRangesPartition ==
    (prog = "rmse2d_multi" /\ pc \in {"run", "done"}) =>
        /\ \A v, w \in DOMAIN chunks :
              v # w => WorkerRows(chunks[v], chunk_N, m)
                          \cap WorkerRows(chunks[w], chunk_N, m) = {}
        /\ UNION { WorkerRows(chunks[w], chunk_N, m) : w \in DOMAIN chunks } = 0 .. m - 1
        /\ \A i \in 0 .. m - 1 : Cardinality(writers[i]) <= 1
        /\ pc = "done" =>
              \A i \in 0 .. m - 1 : /\ Cardinality(writers[i]) = 1
                                    /\ sumA[i] = RowSq(arg.A, arg.B, i, n)

\* A joined call whose last worker has a short range.
C8_Witness ==
    /\ prog = "rmse2d_multi" /\ pc = "done"
    /\ arg.threads = MaxThreads /\ m = MaxRows
    /\ chunks[arg.threads - 1] < m
    /\ chunks[arg.threads - 1] + chunk_N > m

\* C1 (as amended): after every Q update every row of Q sums to 1; every
\* entry is strictly between 0 and 1 when K >= 2, and equals 1 when K = 1.
C1_QRowsNormalised ==
    (prog = "admixNMF" /\ Q_init # Unbound) =>
        \A i \in DOMAIN Qn :
            /\ SumTo(Qn[i], arg.K) = Qd[i]
            /\ \A k \in 0 .. arg.K - 1 :
                  IF arg.K >= 2
                  THEN /\ 0 < Qn[i][k] /\ Qn[i][k] < Qd[i]
                       /\ QEntry(Qn[i][k], Qd[i]) \in 1 .. SCALE - 1
                  ELSE Qn[i][k] = Qd[i]

\* C1 as stated: after every Q update every entry of Q is strictly between 0
\* and 1 and every row sums to 1, for every K >= 1.
C1_Original ==
    (prog = "admixNMF" /\ Q_init # Unbound) =>
        \A i \in DOMAIN Qn :
            /\ SumTo(Qn[i], arg.K) = Qd[i]
            /\ \A k \in 0 .. arg.K - 1 : 0 < Qn[i][k] /\ Qn[i][k] < Qd[i]

\* A full-data Q update of a run with a single ancestral population.
C1_Witness ==
    /\ prog = "admixNMF" /\ arg.K = 1 /\ Q_init # Unbound
    /\ pc = "fullMeasure"
    /\ \A i \in DOMAIN Qn : Qn[i][0] = Qd[i]

\* C2: every entry of the F returned by admixNMF, and of the matrix every
\* call of estimateF returns (so of the indF PCAngsd returns), is in
\* [1e-4, 1 - 1e-4].
C2_FrequenciesClipped ==
    /\ (prog = "admixNMF" /\ pc = "done") =>
          \A s \in DOMAIN result.F : \A k \in DOMAIN result.F[s] :
              ClipLo <= result.F[s][k] /\ result.F[s][k] <= ClipHi
    /\ (prog = "PCAngsd" /\ predF # None) =>
          \A i \in DOMAIN predF : \A s \in DOMAIN predF[i] :
              PClipLo <= predF[i][s] /\ predF[i][s] <= PClipHi
    /\ (prog = "PCAngsd" /\ pc = "done" /\ result.indF # None) =>
          result.indF = predF

\* PCAngsd returns a matrix with an entry on each of the two bounds.
C2_Witness ==
    /\ prog = "PCAngsd" /\ pc = "done" /\ result.indF # None
    /\ \E i \in DOMAIN predF : \E s \in DOMAIN predF[i] : predF[i][s] = PClipLo
    /\ \E i \in DOMAIN predF : \E s \in DOMAIN predF[i] : predF[i][s] = PClipHi

\* C3 (as amended): an iteration of the refinement loop is the last one if
\* the RMSE is below M_tole, or the iteration count exceeds 2 and the absolute
\* change of the RMSE is at most 5e-6; otherwise the loop goes on to the next
\* iteration, unless this one was iteration M + 1, the cap.
C3_StopRule ==
    [][ (prog = "PCAngsd" /\ pc = "iter") =>
          LET stopNow == \/ diff' < arg.M_tole
                         \/ iteration > 2 /\ Abs(diff' - oldDiff) <= PlateauTol
          IN  /\ stopNow => pc' = "final"
              /\ ~stopNow => IF iteration < arg.M + 1
                             THEN pc' = "iter" /\ iteration' = iteration + 1
                             ELSE pc' = "final" ]_vars

\* C3 as stated: the plateau test is a change below 5e-6.
C3_Original ==
    [][ (prog = "PCAngsd" /\ pc = "iter") =>
          LET stopNow == \/ diff' < arg.M_tole
                         \/ iteration > 2 /\ Abs(diff' - oldDiff) < PlateauTol
          IN  /\ stopNow => pc' = "final"
              /\ ~stopNow => IF iteration < arg.M + 1
                             THEN pc' = "iter" /\ iteration' = iteration + 1
                             ELSE pc' = "final" ]_vars

\* The loop was left before the cap by a change of the RMSE of exactly 5e-6.
C3_Witness ==
    /\ prog = "PCAngsd" /\ pc = "final"
    /\ iteration > 2 /\ iteration < arg.M + 1
    /\ diff >= arg.M_tole
    /\ Abs(diff - oldDiff) = PlateauTol

\* C4 as stated: for every non-negative cap PCAngsd and admixNMF end without
\* an error raised on account of the cap.
C4_NoErrorForAnyCap ==
    (prog \in {"admixNMF", "PCAngsd"} /\ pc = "error") => err # "UnboundLocalError"

\* C5 as stated: a likelihood matrix whose row count is not a multiple of 3
\* gives no result.
C5_NoSilentTruncation ==
    (/\ prog \in {"admixNMF", "PCAngsd", "callGeno"}
     /\ Cardinality(DOMAIN arg.likeMatrix) % 3 # 0) => pc # "done"

\* C6: re-indexing by argsort(shuffleX) is the inverse of the shuffle: row j
\* of the returned F belongs to original site j, and the X of the diagnostics
\* is the caller's X.
C6_ReshuffleInverts ==
    (prog = "admixNMF" /\ pc = "done") =>
        /\ \A j \in 0 .. n - 1 : siteOf[j] = j
        /\ X = arg.X
        /\ result.F = F

\* A finished run whose shuffle is not its own inverse.
C6_Witness ==
    /\ prog = "admixNMF" /\ pc = "done"
    /\ \E j \in 0 .. n - 1 : shuffleX[shuffleX[j]] # j

\* C7: whenever PCAngsd returns a frequency matrix, the returned expG is the
\* uncentered dosage covPCAngsd computes from that matrix, which is the last
\* output of estimateF, and the returned C is estimateCov of that expG and of
\* covPCAngsd's diagonal.
C7_FinalFromReturnedF ==
    (prog = "PCAngsd" /\ pc = "done" /\ result.indF # None) =>
        LET xg == [i \in 0 .. m - 1 |->
                     DosageRow(arg.likeMatrix, result.indF, arg.f, i, n)]
            dC == [i \in 0 .. m - 1 |->
                     DiagOfRow(arg.likeMatrix, result.indF, arg.f, i, n)]
        IN  /\ result.indF = predF
            /\ result.expG = xg
            /\ \A i \in 0 .. m - 1 : \A s \in 0 .. n - 1 :
                  0 <= result.expG[i][s] /\ result.expG[i][s] <= 2 * PSCALE
            /\ result.C = EstimateCov(xg, dC, arg.f, m, n, << 0 >>, m)

\* A return after the plateau test ended the loop before the cap.
C7_Witness ==
    /\ prog = "PCAngsd" /\ pc = "done" /\ result.indF # None
    /\ iteration > 2 /\ iteration < arg.M + 1
    /\ diff >= arg.M_tole

\* C9 as stated: the columns are split into exactly batch contiguous,
\* non-empty, disjoint blocks that cover [0, n), and every outer iteration
\* visits each block once.
C9_ExactlyBatchBlocks ==
    (prog = "admixNMF" /\ pc # "call") =>
        /\ Cardinality(DOMAIN bIndex) = arg.batch
        /\ \A j \in DOMAIN bIndex : Block(bIndex[j], n, arg.batch) # {}
        /\ UNION { Block(bIndex[j], n, arg.batch) : j \in DOMAIN bIndex } = 0 .. n - 1
        /\ err # "IndexError"

\* The pF or pQ of the loop at pc, from the dimensions.
C10_Cap ==
    LET nInner == IF pc \in {"mbF", "mbQ"} THEN Cardinality(CurBlock) ELSE n
    IN  IF pc \in {"mbF", "fullF"}
        THEN 2 * (1 + (m * nInner + m * arg.K) \div (nInner * arg.K + nInner))
        ELSE 2 * (1 + (m * nInner + nInner * arg.K) \div (m * arg.K + m))

\* C10: every pass of an acceleration loop is an update and is one of at most
\* pF resp. pQ; the first pass records its change and is never the last; a
\* later pass is the last one exactly if its change is at most a tenth of the
\* first one's or it is pass pF resp. pQ.
C10_AccelerationLoops ==
    [][ (/\ prog = "admixNMF"
         /\ pc \in {"mbF", "mbQ", "fullF", "fullQ"}
         /\ pc' # "error") =>
          LET inF == pc \in {"mbF", "fullF"}
              blk == IF pc \in {"mbF", "mbQ"} THEN CurBlock ELSE 0 .. n - 1
              change == IF inF THEN Frobenius(F', F, blk, arg.K)
                        ELSE Frobenius(QVal(Qn', Qd'), QVal(Qn, Qd), 0 .. m - 1, arg.K)
              first == IF inF THEN F_init' ELSE Q_init'
          IN  /\ inner < C10_Cap
              /\ IF inF
                 THEN F' = UpdateF(F, X, QVal(Qn, Qd), m, arg.K, blk)
                 ELSE Qn' = UpdateQ(QVal(Qn, Qd), X, F, arg.K, blk,
                                    IF pc = "mbQ" THEN arg.alpha
                                    ELSE arg.alpha * arg.batch)
              /\ inner = 0 => pc' = pc /\ inner' = 1 /\ first = change
              /\ inner >= 1 =>
                    /\ pc' # pc <=> (10 * change <= first \/ inner + 1 = C10_Cap)
                    /\ pc' = pc => inner' = inner + 1 ]_vars

\* Two passes of a mini-batch F loop are done and a third one is due.
C10_Witness ==
    /\ prog = "admixNMF" /\ pc = "mbF" /\ inner = 2
    /\ F_init # Unbound /\ 10 * Frobenius(F, F_prev, CurBlock, arg.K) > F_init

\* C11: in automatic mode the MAP test scores a candidate with a zero or
\* negative entry on the diagonal of its partial covariance 1.0, the count it
\* chooses is the smallest k >= 1 whose score is the least, and it chooses a
\* degenerate candidate only when every candidate is degenerate.
C11_DegenerateAt(eig) == Degenerate(MapGrid(C), loadings, eig, m)
C12_IterationStart ==
    /\ prog = "admixNMF"
    /\ inner = 0
    /\ (pc = "mbF" /\ bpos = 0) \/ pc = "fullF"
C12_MeasuredAgainstIterationStart == C12_IterationStart => prevQ = QVal(Qn, Qd)

====
